---- MODULE Spec2Model ----
(***************************************************************************)
(* Bounded integers of the `clamped` crate (src/src/lib.rs).               *)
(*                                                                         *)
(* The macro `clamped!` expands, for every primitive integer type, to five *)
(* tuple structs whose const generic arguments are the bounds of a range:  *)
(*   $clamped<LOWER, UPPER>              LOWER..UPPER                      *)
(*   $clamped_from<LOWER>                LOWER..                           *)
(*   $clamped_inclusive<LOWER, UPPER>    LOWER..=UPPER                     *)
(*   $clamped_to<UPPER>                  ..UPPER                           *)
(*   $clamped_to_inclusive<UPPER>        ..=UPPER                          *)
(* The model covers the two 8-bit instantiations (u8, i8).  A program      *)
(* names one concrete type and one build profile, then calls the public    *)
(* operations of that type in any order.  Text is modelled as a sequence   *)
(* of one-character strings.                                               *)
(***************************************************************************)
EXTENDS Integers, Sequences, FiniteSets

VARIABLES
    debug_assertions,   \* TRUE in a build where debug_assert! is compiled in
    ty,                 \* the concrete type named by the program
    held,               \* the bounded value the program holds, if any
    origin,             \* history: the primitive `held` was converted from
    res                 \* the last operation and what it returned

vars == <<debug_assertions, ty, held, origin, res>>

----------------------------------------------------------------------------
(* Primitive integer types *)

\* Bit width of u8 / i8.
Width == 8

\* Candidates and bounds are drawn from windows of this radius around the
\* minimum, the middle and the maximum of the primitive type.
SampleRadius == 1

InnerTypes == {"u8", "i8"}

MIN(inner) == IF inner = "u8" THEN 0 ELSE -(2 ^ (Width - 1))

MAX(inner) == IF inner = "u8" THEN 2 ^ Width - 1 ELSE 2 ^ (Width - 1) - 1

Samples(inner) ==
    LET lo  == MIN(inner)
        hi  == MAX(inner)
        mid == (lo + hi + 1) \div 2
    IN  (lo .. lo + SampleRadius)
            \cup (mid - SampleRadius .. mid + SampleRadius)
            \cup (hi - SampleRadius .. hi)

----------------------------------------------------------------------------
(* Text *)

MsgTheValue == <<"T", "h", "e", " ", "v", "a", "l", "u", "e", " ">>

MsgHalfOpen == <<" ", "i", "s", " ", "n", "o", "t", " ", "i", "n", " ", "t", "h", "e", " ", "h", "a", "l", "f", "-", "o", "p", "e", "n", " ", "r", "a", "n", "g", "e", " ">>

MsgInclusive == <<" ", "i", "s", " ", "n", "o", "t", " ", "i", "n", " ", "t", "h", "e", " ", "i", "n", "c", "l", "u", "s", "i", "v", "e", " ", "r", "a", "n", "g", "e", " ">>

MsgExclusive == <<" ", "i", "s", " ", "n", "o", "t", " ", "i", "n", " ", "t", "h", "e", " ", "e", "x", "c", "l", "u", "s", "i", "v", "e", " ", "r", "a", "n", "g", "e", " ">>

DotDot == <<".", ".">>

DotDotEq == <<".", ".", "=">>

PathSep == <<":", ":">>

CommaSpace == <<",", " ">>

Digit(d) == <<"0", "1", "2", "3", "4", "5", "6", "7", "8", "9">>[d + 1]

\* Decimal digits of a natural number, most significant first.
RECURSIVE fmt_nat(_)
fmt_nat(n) == IF n < 10 THEN <<Digit(n)>> ELSE fmt_nat(n \div 10) \o <<Digit(n % 10)>>

\* `{:?}` of a primitive integer: decimal, with a leading minus sign.
fmt_int(n) == IF n < 0 THEN <<"-">> \o fmt_nat(-n) ELSE fmt_nat(n)

----------------------------------------------------------------------------
(* Results *)

None == [some |-> FALSE]

Some(x) == [some |-> TRUE, val |-> x]

Ok(x) == [tag |-> "Ok", value |-> x]

Err(e) == [tag |-> "Err", error |-> e]

\* A failed debug_assert! unwinds instead of returning.
Panic == [tag |-> "Panic"]

----------------------------------------------------------------------------
(* Conversion errors *)

OutOfBounds(lower, upper, given) ==
    [kind |-> "OutOfBounds", lower |-> lower, upper |-> upper, given |-> given]

OutOfBoundsFrom(lower, given) ==
    [kind |-> "OutOfBoundsFrom", lower |-> lower, given |-> given]

OutOfBoundsInclusive(lower, upper, given) ==
    [kind |-> "OutOfBoundsInclusive", lower |-> lower, upper |-> upper, given |-> given]

OutOfBoundsTo(upper, given) ==
    [kind |-> "OutOfBoundsTo", upper |-> upper, given |-> given]

OutOfBoundsToInclusive(upper, given) ==
    [kind |-> "OutOfBoundsToInclusive", upper |-> upper, given |-> given]

\* The #[error("...")] format string of each error struct.
to_string(e) ==
    CASE e.kind = "OutOfBounds" ->
            MsgTheValue \o fmt_int(e.given) \o MsgHalfOpen
                \o fmt_int(e.lower) \o DotDot \o fmt_int(e.upper)
      [] e.kind = "OutOfBoundsFrom" ->
            MsgTheValue \o fmt_int(e.given) \o MsgInclusive
                \o fmt_int(e.lower) \o DotDot
      [] e.kind = "OutOfBoundsInclusive" ->
            MsgTheValue \o fmt_int(e.given) \o MsgInclusive
                \o fmt_int(e.lower) \o DotDotEq \o fmt_int(e.upper)
      [] e.kind = "OutOfBoundsTo" ->
            MsgTheValue \o fmt_int(e.given) \o MsgExclusive
                \o DotDot \o fmt_int(e.upper)
      [] e.kind = "OutOfBoundsToInclusive" ->
            MsgTheValue \o fmt_int(e.given) \o MsgInclusive
                \o DotDotEq \o fmt_int(e.upper)

----------------------------------------------------------------------------
(* The five tuple structs *)

Shapes == {"Clamped", "ClampedFrom", "ClampedInclusive", "ClampedTo", "ClampedToInclusive"}

TwoSided == {"Clamped", "ClampedInclusive"}

\* A concrete type: the struct, its primitive, and its const generic arguments
\* in declaration order (<<LOWER, UPPER>>, <<LOWER>> or <<UPPER>>).
Types ==
    UNION {
        {[shape |-> sh, inner |-> i, args |-> <<l, u>>] :
            sh \in TwoSided, l \in Samples(i), u \in Samples(i)}
        \cup
        {[shape |-> sh, inner |-> i, args |-> <<b>>] :
            sh \in Shapes \ TwoSided, b \in Samples(i)}
        : i \in InnerTypes }

\* The tuple struct value `Self(inner)`; field .0 is c[1].
Self(inner) == <<inner>>

\* Variant: the upper bound taken as inclusive.
try_from_clamped_upper_inclusive(dbg, LOWER, UPPER, inner) ==
    IF dbg /\ ~(LOWER < UPPER) THEN Panic
    ELSE IF inner < LOWER \/ inner > UPPER
         THEN Err(OutOfBounds(LOWER, UPPER, inner))
         ELSE Ok(Self(inner))

\* Variant: the assertion of the inclusive struct, `LOWER <= UPPER`.
try_from_clamped_weak_assert(dbg, LOWER, UPPER, inner) ==
    IF dbg /\ ~(LOWER <= UPPER) THEN Panic
    ELSE IF inner < LOWER \/ inner >= UPPER
         THEN Err(OutOfBounds(LOWER, UPPER, inner))
         ELSE Ok(Self(inner))

\* TryFrom<$inner> for $clamped<LOWER, UPPER>
try_from_clamped(dbg, LOWER, UPPER, inner) ==
    IF dbg /\ ~(LOWER < UPPER) THEN Panic
    ELSE IF inner < LOWER \/ inner >= UPPER
         THEN Err(OutOfBounds(LOWER, UPPER, inner))
         ELSE Ok(Self(inner))

\* Variant: the lower bound taken as exclusive.
try_from_clamped_from_lower_exclusive(LOWER, inner) ==
    IF inner <= LOWER
    THEN Err(OutOfBoundsFrom(LOWER, inner))
    ELSE Ok(Self(inner))

\* TryFrom<$inner> for $clamped_from<LOWER>
try_from_clamped_from(LOWER, inner) ==
    IF inner < LOWER
    THEN Err(OutOfBoundsFrom(LOWER, inner))
    ELSE Ok(Self(inner))

\* Variant: the upper bound taken as exclusive.
try_from_clamped_inclusive_upper_exclusive(dbg, LOWER, UPPER, inner) ==
    IF dbg /\ ~(LOWER <= UPPER) THEN Panic
    ELSE IF inner < LOWER \/ inner >= UPPER
         THEN Err(OutOfBoundsInclusive(LOWER, UPPER, inner))
         ELSE Ok(Self(inner))

\* Variant: an out-of-range candidate is clamped to the nearest bound.
try_from_clamped_inclusive_saturating(dbg, LOWER, UPPER, inner) ==
    IF dbg /\ ~(LOWER <= UPPER) THEN Panic
    ELSE IF inner < LOWER THEN Ok(Self(LOWER))
    ELSE IF inner > UPPER THEN Ok(Self(UPPER))
    ELSE Ok(Self(inner))

\* TryFrom<$inner> for $clamped_inclusive<LOWER, UPPER>
try_from_clamped_inclusive(dbg, LOWER, UPPER, inner) ==
    IF dbg /\ ~(LOWER <= UPPER) THEN Panic
    ELSE IF inner < LOWER \/ inner > UPPER
         THEN Err(OutOfBoundsInclusive(LOWER, UPPER, inner))
         ELSE Ok(Self(inner))

\* Variant: the upper bound taken as inclusive.
try_from_clamped_to_upper_inclusive(UPPER, inner) ==
    IF inner > UPPER
    THEN Err(OutOfBoundsTo(UPPER, inner))
    ELSE Ok(Self(inner))

\* TryFrom<$inner> for $clamped_to<UPPER>
try_from_clamped_to(UPPER, inner) ==
    IF inner >= UPPER
    THEN Err(OutOfBoundsTo(UPPER, inner))
    ELSE Ok(Self(inner))

\* Variant: the upper bound taken as exclusive.
try_from_clamped_to_inclusive_upper_exclusive(UPPER, inner) ==
    IF inner >= UPPER
    THEN Err(OutOfBoundsTo(UPPER, inner))
    ELSE Ok(Self(inner))

\* TryFrom<$inner> for $clamped_to_inclusive<UPPER>
try_from_clamped_to_inclusive(UPPER, inner) ==
    IF inner > UPPER
    THEN Err(OutOfBoundsTo(UPPER, inner))
    ELSE Ok(Self(inner))

\* From<$clamped<..>> for $inner
from(clamped) == clamped[1]

\* Variant: the comparison inverted.
eq_inverted(self, other) == self[1] # other

\* PartialEq<$inner> for $clamped<..>
eq(self, other) == self[1] = other

\* #[derive(Clone, Copy)]
clone(self) == Self(self[1])

----------------------------------------------------------------------------
(* Debug formatting *)

CratePath == <<"c", "l", "a", "m", "p", "e", "d">>

\* The struct identifiers the macro is invoked with for u8 and i8.
Ident(shape, inner) ==
    LET base == IF inner = "u8"
                THEN <<"C", "l", "a", "m", "p", "e", "d", "U", "8">>
                ELSE <<"C", "l", "a", "m", "p", "e", "d", "I", "8">>
    IN  CASE shape = "Clamped"            -> base
          [] shape = "ClampedFrom"        -> base \o <<"F", "r", "o", "m">>
          [] shape = "ClampedInclusive"   -> base \o <<"I", "n", "c", "l", "u", "s", "i", "v", "e">>
          [] shape = "ClampedTo"          -> base \o <<"T", "o">>
          [] shape = "ClampedToInclusive" -> base \o <<"T", "o", "I", "n", "c", "l", "u", "s", "i", "v", "e">>

\* A const generic argument as the compiler prints it in a type name: the
\* greatest value of the primitive, and the least value of a signed one, are
\* printed as the paths `u8::MAX`, `i8::MIN`, `i8::MAX`; any other value in
\* decimal.
fmt_const(inner, n) ==
    LET prim == IF inner = "u8" THEN <<"u", "8">> ELSE <<"i", "8">>
    IN  IF inner = "i8" /\ n = MIN(inner) THEN prim \o PathSep \o <<"M", "I", "N">>
        ELSE IF n = MAX(inner) THEN prim \o PathSep \o <<"M", "A", "X">>
        ELSE fmt_int(n)

\* The const generic arguments as the compiler prints them: `10, 20`.
RECURSIVE fmt_args(_, _)
fmt_args(inner, args) ==
    IF Len(args) = 1 THEN fmt_const(inner, args[1])
    ELSE fmt_const(inner, Head(args)) \o CommaSpace \o fmt_args(inner, Tail(args))

\* any::type_name::<Self>(): the path of the struct, const arguments included.
type_name(t) ==
    CratePath \o PathSep \o Ident(t.shape, t.inner) \o <<"<">> \o fmt_args(t.inner, t.args) \o <<">">>

\* str::rsplit_once: split at the last occurrence of `pat`.
rsplit_once(s, pat) ==
    LET n    == Len(pat)
        hits == {i \in 1 .. Len(s) - n + 1 : SubSeq(s, i, i + n - 1) = pat}
    IN  IF hits = {} THEN None
        ELSE LET i == CHOOSE h \in hits : \A g \in hits : g <= h
             IN  Some(<<SubSeq(s, 1, i - 1), SubSeq(s, i + n, Len(s))>>)

\* fmt::Debug for $clamped<..>
fmt(t, self) ==
    LET split == rsplit_once(type_name(t), PathSep)
        name  == IF split.some THEN split.val[2] ELSE type_name(t)
    IN  name \o <<"(">> \o fmt_int(self[1]) \o <<")">>

----------------------------------------------------------------------------
(* The program *)

Init ==
    /\ debug_assertions \in BOOLEAN
    /\ ty \in Types
    /\ held = None
    /\ origin = None
    /\ res = [op |-> "none"]

\* A panic ends the program.
Running == ~(res.op = "try_from" /\ res.out.tag = "Panic")

\* `let held = T::try_from(v)?`: on Ok the program holds the new value.
Convert(v, r) ==
    /\ res' = [op |-> "try_from", given |-> v, out |-> r]
    /\ held' = IF r.tag = "Ok" THEN Some(r.value) ELSE held
    /\ origin' = IF r.tag = "Ok" THEN Some(v) ELSE origin
    /\ UNCHANGED <<debug_assertions, ty>>

TryFromClamped ==
    /\ Running
    /\ ty.shape = "Clamped"
    /\ \E v \in Samples(ty.inner) :
        Convert(v, try_from_clamped(debug_assertions, ty.args[1], ty.args[2], v))

TryFromClampedFrom ==
    /\ Running
    /\ ty.shape = "ClampedFrom"
    /\ \E v \in Samples(ty.inner) :
        Convert(v, try_from_clamped_from(ty.args[1], v))

TryFromClampedInclusive ==
    /\ Running
    /\ ty.shape = "ClampedInclusive"
    /\ \E v \in Samples(ty.inner) :
        Convert(v, try_from_clamped_inclusive(debug_assertions, ty.args[1], ty.args[2], v))

TryFromClampedTo ==
    /\ Running
    /\ ty.shape = "ClampedTo"
    /\ \E v \in Samples(ty.inner) :
        Convert(v, try_from_clamped_to(ty.args[1], v))

TryFromClampedToInclusive ==
    /\ Running
    /\ ty.shape = "ClampedToInclusive"
    /\ \E v \in Samples(ty.inner) :
        Convert(v, try_from_clamped_to_inclusive(ty.args[1], v))

\* `let x: $inner = held.into()`; the struct is Copy, so `held` stays usable.
Unwrap ==
    /\ Running
    /\ held.some
    /\ res' = [op |-> "from", out |-> from(held.val)]
    /\ UNCHANGED <<debug_assertions, ty, held, origin>>

\* `held == w`
EqInner ==
    /\ Running
    /\ held.some
    /\ \E w \in Samples(ty.inner) :
        res' = [op |-> "eq", other |-> w, out |-> eq(held.val, w)]
    /\ UNCHANGED <<debug_assertions, ty, held, origin>>

\* `let held = held.clone()`
Clone ==
    /\ Running
    /\ held.some
    /\ res' = [op |-> "clone", out |-> clone(held.val)]
    /\ held' = Some(clone(held.val))
    /\ UNCHANGED <<debug_assertions, ty, origin>>

\* `format!("{:?}", held)`
Fmt ==
    /\ Running
    /\ held.some
    /\ res' = [op |-> "fmt", out |-> fmt(ty, held.val)]
    /\ UNCHANGED <<debug_assertions, ty, held, origin>>

\* `e.to_string()` on the error the last conversion returned
Display ==
    /\ res.op = "try_from"
    /\ res.out.tag = "Err"
    /\ res' = [op |-> "to_string", error |-> res.out.error, out |-> to_string(res.out.error)]
    /\ UNCHANGED <<debug_assertions, ty, held, origin>>

\* The held value goes out of scope.
Drop ==
    /\ Running
    /\ held.some
    /\ held' = None
    /\ origin' = None
    /\ res' = [op |-> "drop"]
    /\ UNCHANGED <<debug_assertions, ty>>

Next ==
    \/ TryFromClamped
    \/ TryFromClampedFrom
    \/ TryFromClampedInclusive
    \/ TryFromClampedTo
    \/ TryFromClampedToInclusive
    \/ Unwrap
    \/ EqInner
    \/ Clone
    \/ Fmt
    \/ Display
    \/ Drop

Spec == Init /\ [][Next]_vars

----------------------------------------------------------------------------
(* Properties *)

\* The range each struct documents: LOWER..UPPER, LOWER.., LOWER..=UPPER,
\* ..UPPER, ..=UPPER.
InRange(t, v) ==
    CASE t.shape = "Clamped"            -> t.args[1] <= v /\ v < t.args[2]
      [] t.shape = "ClampedFrom"        -> t.args[1] <= v
      [] t.shape = "ClampedInclusive"   -> t.args[1] <= v /\ v <= t.args[2]
      [] t.shape = "ClampedTo"          -> v < t.args[1]
      [] t.shape = "ClampedToInclusive" -> v <= t.args[1]

\* A two-sided type whose bounds are out of order.
Degenerate(t) ==
    \/ t.shape = "Clamped" /\ t.args[1] >= t.args[2]
    \/ t.shape = "ClampedInclusive" /\ t.args[1] > t.args[2]

Converted(shape) == res.op = "try_from" /\ ty.shape = shape

Contains(s, pat) ==
    \E i \in 1 .. Len(s) - Len(pat) + 1 : SubSeq(s, i, i + Len(pat) - 1) = pat

\* The text before the first "(" of a debug rendering: the type label.
Label(s) ==
    LET opens == {i \in 1 .. Len(s) : s[i] = "("}
    IN  IF opens = {} THEN s
        ELSE SubSeq(s, 1, (CHOOSE i \in opens : \A j \in opens : i <= j) - 1)

\* C1: on a half-open type with LOWER < UPPER, try_from(v) is Ok exactly when
\* LOWER <= v < UPPER, and otherwise returns OutOfBounds { lower: LOWER,
\* upper: UPPER, given: v }; v = LOWER is accepted and v = UPPER rejected.
C1_HalfOpen ==
    (Converted("Clamped") /\ ty.args[1] < ty.args[2]) =>
        LET L == ty.args[1]
            U == ty.args[2]
            v == res.given
        IN  /\ res.out.tag = "Ok" <=> (L <= v /\ v < U)
            /\ res.out.tag # "Ok" =>
                res.out = [tag |-> "Err",
                           error |-> [kind |-> "OutOfBounds", lower |-> L,
                                      upper |-> U, given |-> v]]
            /\ v = L => res.out.tag = "Ok"
            /\ v = U => res.out.tag = "Err"

C1_Witness ==
    /\ Converted("Clamped")
    /\ ty.args[1] < ty.args[2]
    /\ res.given = ty.args[2]
    /\ res.out.tag = "Err"

\* C2: on an inclusive type with LOWER <= UPPER, try_from(v) is Ok exactly
\* when LOWER <= v <= UPPER, and otherwise returns OutOfBoundsInclusive
\* { lower: LOWER, upper: UPPER, given: v }; both bounds are accepted.
C2_Inclusive ==
    (Converted("ClampedInclusive") /\ ty.args[1] <= ty.args[2]) =>
        LET L == ty.args[1]
            U == ty.args[2]
            v == res.given
        IN  /\ res.out.tag = "Ok" <=> (L <= v /\ v <= U)
            /\ res.out.tag # "Ok" =>
                res.out = [tag |-> "Err",
                           error |-> [kind |-> "OutOfBoundsInclusive", lower |-> L,
                                      upper |-> U, given |-> v]]
            /\ (v = L \/ v = U) => res.out.tag = "Ok"
            /\ L = U => (res.out.tag = "Ok" <=> v = L)

C2_Witness ==
    /\ Converted("ClampedInclusive")
    /\ ty.args[1] < ty.args[2]
    /\ res.given = ty.args[2]
    /\ res.out.tag = "Ok"

\* C3: on a lower-only type, try_from(v) is Ok exactly when v >= LOWER, up to
\* the maximum of the primitive, and otherwise returns OutOfBoundsFrom
\* { lower: LOWER, given: v }; with LOWER the minimum every v is accepted.
C3_From ==
    Converted("ClampedFrom") =>
        LET L == ty.args[1]
            v == res.given
        IN  /\ res.out.tag = "Ok" <=> v >= L
            /\ res.out.tag # "Ok" =>
                res.out = [tag |-> "Err",
                           error |-> [kind |-> "OutOfBoundsFrom", lower |-> L,
                                      given |-> v]]
            /\ v = MAX(ty.inner) => res.out.tag = "Ok"
            /\ L = MIN(ty.inner) => res.out.tag = "Ok"

C3_Witness ==
    /\ Converted("ClampedFrom")
    /\ ty.args[1] > MIN(ty.inner)
    /\ res.given = MAX(ty.inner)
    /\ res.out.tag = "Ok"

\* C4: on an upper-open type, try_from(v) is Ok exactly when v < UPPER, and
\* otherwise returns an error with upper = UPPER and given = v; v = UPPER is
\* rejected, and with UPPER the minimum no v is accepted.
C4_To ==
    Converted("ClampedTo") =>
        LET U == ty.args[1]
            v == res.given
        IN  /\ res.out.tag = "Ok" <=> v < U
            /\ res.out.tag # "Ok" =>
                /\ res.out.tag = "Err"
                /\ res.out.error.upper = U
                /\ res.out.error.given = v
            /\ v = U => res.out.tag = "Err"
            /\ U = MIN(ty.inner) => res.out.tag = "Err"

C4_Witness ==
    /\ Converted("ClampedTo")
    /\ res.given = ty.args[1]
    /\ res.out.tag = "Err"
    /\ res.out.error.given = ty.args[1]

\* C5: on an upper-inclusive type, try_from(v) is Ok exactly when v <= UPPER,
\* and otherwise returns an error with upper = UPPER and given = v; v = UPPER
\* is accepted, and with UPPER the maximum every v is accepted.
C5_ToInclusive ==
    Converted("ClampedToInclusive") =>
        LET U == ty.args[1]
            v == res.given
        IN  /\ res.out.tag = "Ok" <=> v <= U
            /\ res.out.tag # "Ok" =>
                /\ res.out.tag = "Err"
                /\ res.out.error.upper = U
                /\ res.out.error.given = v
            /\ v = U => res.out.tag = "Ok"
            /\ U = MAX(ty.inner) => res.out.tag = "Ok"

C5_Witness ==
    /\ Converted("ClampedToInclusive")
    /\ res.given = ty.args[1]
    /\ ty.args[1] < MAX(ty.inner)
    /\ res.out.tag = "Ok"

\* The error kind and the interval notation that belong to each struct.
ErrorKindOf(shape) ==
    CASE shape = "Clamped"            -> "OutOfBounds"
      [] shape = "ClampedFrom"        -> "OutOfBoundsFrom"
      [] shape = "ClampedInclusive"   -> "OutOfBoundsInclusive"
      [] shape = "ClampedTo"          -> "OutOfBoundsTo"
      [] shape = "ClampedToInclusive" -> "OutOfBoundsToInclusive"

NotationOf(t) ==
    CASE t.shape = "Clamped"            -> fmt_int(t.args[1]) \o DotDot \o fmt_int(t.args[2])
      [] t.shape = "ClampedFrom"        -> fmt_int(t.args[1]) \o DotDot
      [] t.shape = "ClampedInclusive"   -> fmt_int(t.args[1]) \o DotDotEq \o fmt_int(t.args[2])
      [] t.shape = "ClampedTo"          -> <<" ">> \o DotDot \o fmt_int(t.args[1])
      [] t.shape = "ClampedToInclusive" -> <<" ">> \o DotDotEq \o fmt_int(t.args[1])

\* C6: a rejected conversion on a struct returns the error kind that belongs
\* to that struct and to no other, and the error's display text names the
\* interval notation of the struct together with the rejected value.
C6_OneKindPerShape ==
    /\ (res.op = "try_from" /\ res.out.tag = "Err") =>
            res.out.error.kind = ErrorKindOf(ty.shape)
    /\ res.op = "to_string" =>
            /\ Contains(res.out, MsgTheValue \o fmt_int(res.error.given) \o <<" ">>)
            /\ Contains(res.out, NotationOf(ty))

\* C7: a bounded value built from v carries exactly v: unwrapping returns v,
\* and comparing it with a primitive w is true exactly when w = v.
C7_RoundTrip ==
    /\ res.op = "from" => (origin.some /\ res.out = origin.val)
    /\ res.op = "eq" => (origin.some /\ (res.out <=> res.other = origin.val))

C7_Witness ==
    /\ res.op = "eq"
    /\ origin.some
    /\ res.other = origin.val
    /\ res.out = TRUE

\* C8: every live bounded value lies in the range of its type and is the
\* unchanged candidate of a try_from that accepted it; a rejected try_from
\* rejected a candidate outside the range and produced no new value.
C8_LiveInRange ==
    /\ held.some =>
            /\ InRange(ty, held.val[1])
            /\ origin = Some(held.val[1])
    /\ ~held.some => origin = None
    /\ (res.op = "try_from" /\ res.out.tag = "Err") =>
            /\ ~InRange(ty, res.given)
            /\ held.some => held.val[1] # res.given

C8_Witness ==
    /\ held.some
    /\ res.op = "try_from"
    /\ res.out.tag = "Err"
    /\ ~Degenerate(ty)

\* C9: the debug rendering is the bare struct name with its const arguments,
\* without the module path, followed by the wrapped value; the same value in
\* a type of the same struct and primitive with other bounds renders
\* differently, with a different type label.
C9_DebugShowsBounds ==
    res.op = "fmt" =>
        /\ res.out = Ident(ty.shape, ty.inner) \o <<"<">> \o fmt_args(ty.inner, ty.args)
                        \o <<">", "(">> \o fmt_int(held.val[1]) \o <<")">>
        /\ \A t2 \in Types :
                (t2.shape = ty.shape /\ t2.inner = ty.inner /\ t2.args # ty.args) =>
                    /\ fmt(t2, held.val) # res.out
                    /\ Label(fmt(t2, held.val)) # Label(res.out)

\* C10: on a two-sided type whose bounds are out of order, no bounded value
\* is ever produced, and in a build with debug assertions every try_from
\* panics, whatever the candidate.
C10_DegenerateType ==
    Degenerate(ty) =>
        /\ held = None
        /\ res.op = "try_from" =>
                IF debug_assertions
                THEN res.out.tag = "Panic"
                ELSE res.out.tag = "Err"

C10_Witness ==
    /\ Degenerate(ty)
    /\ ty.shape = "Clamped"
    /\ ty.args[1] = ty.args[2]
    /\ debug_assertions
    /\ res.op = "try_from"
    /\ res.out.tag = "Panic"

====
